---- MODULE Spec2Model ----
(***************************************************************************)
(* Model of the BVD registry backend (modular revision: routes/            *)
(* vulnerabilities/{create,status,versions,query}.js and services/         *)
(* blockchain.js) together with its two collaborators, the ledger          *)
(* contract and the content store.                                         *)
(*                                                                         *)
(* Strings are sequences of one-character strings, so that startsWith,     *)
(* substring, parseInt and the regular expressions of the source are       *)
(* computed and not assumed.  A 32-byte digest is the string "0x" followed *)
(* by a tag naming the hash function and by the hashed text: the tag and   *)
(* the text stand for the 64 hex digits, which makes both hash functions   *)
(* injective (no collisions) and keeps a digest different from every       *)
(* string that starts with "BVC-".                                         *)
(***************************************************************************)
EXTENDS Integers, Sequences, FiniteSets, TLC

\* ---------------------------------------------------------------- bounds
MaxCreates == 2      \* create requests started in one behaviour
MaxNow == 1          \* Date.now() takes the values 0..MaxNow
MaxPage == 3         \* pages requested are 1..MaxPage
MaxPageSize == 2     \* page sizes requested are 1..MaxPageSize

\* ------------------------------------------------------------ characters
Digit == {"0", "1", "2", "3", "4", "5", "6", "7", "8", "9"}
Upper == {"A", "B", "C", "D", "E", "F", "G", "H", "I", "J", "K", "L", "M",
          "N", "O", "P", "Q", "R", "S", "T", "U", "V", "W", "X", "Y", "Z"}

DigitVal(c) ==
  CASE c = "0" -> 0 [] c = "1" -> 1 [] c = "2" -> 2 [] c = "3" -> 3
    [] c = "4" -> 4 [] c = "5" -> 5 [] c = "6" -> 6 [] c = "7" -> 7
    [] c = "8" -> 8 [] c = "9" -> 9

DigitChar(n) ==
  CASE n = 0 -> "0" [] n = 1 -> "1" [] n = 2 -> "2" [] n = 3 -> "3"
    [] n = 4 -> "4" [] n = 5 -> "5" [] n = 6 -> "6" [] n = 7 -> "7"
    [] n = 8 -> "8" [] n = 9 -> "9"

AllIn(s, set) == \A i \in 1..Len(s) : s[i] \in set

\* parseInt of a string the caller has already matched against \d+
RECURSIVE parseInt(_)
parseInt(s) ==
  IF s = <<>> THEN 0
  ELSE 10 * parseInt(SubSeq(s, 1, Len(s) - 1)) + DigitVal(s[Len(s)])

\* Number.prototype.toString for a natural number
RECURSIVE toDigits(_)
toDigits(n) ==
  IF n < 10 THEN <<DigitChar(n)>>
  ELSE toDigits(n \div 10) \o <<DigitChar(n % 10)>>

\* String.prototype.startsWith
startsWith(s, p) == Len(s) >= Len(p) /\ SubSeq(s, 1, Len(p)) = p

\* String.prototype.substring(0, n)
substring0(s, n) == SubSeq(s, 1, IF n < Len(s) THEN n ELSE Len(s))

BVC == <<"B", "V", "C", "-">>
Dash == <<"-">>
JsonExt == <<".", "j", "s", "o", "n">>

\* ---------------------------------------------------------------- hashes
\* ethers.keccak256(ethers.toUtf8Bytes(textId))
generateBaseId(textId) == <<"0", "x", "keccak256:">> \o textId

\* '0x' + crypto.createHash('sha256').update(s).digest('hex').substring(0, 64)
sha256Hex(s) == <<"0", "x", "sha256:">> \o s

DigestTag == {"keccak256:", "sha256:"}

\* the fixed-length hex-with-prefix shape: "0x" and 64 hex digits
isLikelyBaseId(s) ==
  Len(s) >= 3 /\ s[1] = "0" /\ s[2] = "x" /\ s[3] \in DigestTag

\* ------------------------------------------------------ regular expressions
\* /^[A-Z]{2,5}$/
platformRegex(s) == Len(s) \in 2..5 /\ AllIn(s, Upper)

\* /^\d{4}$/
yearRegex(s) == Len(s) = 4 /\ AllIn(s, Digit)

\* /^\d{4}-\d{2}-\d{2}$/
fullDateRegex(s) ==
  /\ Len(s) = 10
  /\ AllIn(SubSeq(s, 1, 4), Digit)
  /\ s[5] = "-"
  /\ AllIn(SubSeq(s, 6, 7), Digit)
  /\ s[8] = "-"
  /\ AllIn(SubSeq(s, 9, 10), Digit)

\* /^(\d{4}(-\d{2}-\d{2})?)$/
dateRegex(s) == yearRegex(s) \/ fullDateRegex(s)

\* /^BVC-[A-Z]{2,5}-\d{4}-\d{3,5}$/
bvcIdRegex(s) ==
  /\ startsWith(s, BVC)
  /\ \E p \in 2..5 :
       /\ Len(s) \in (4 + p + 1 + 4 + 1 + 3)..(4 + p + 1 + 4 + 1 + 5)
       /\ AllIn(SubSeq(s, 5, 4 + p), Upper)
       /\ s[5 + p] = "-"
       /\ AllIn(SubSeq(s, 6 + p, 9 + p), Digit)
       /\ s[10 + p] = "-"
       /\ AllIn(SubSeq(s, 11 + p, Len(s)), Digit)

\* the length of the platform group of a string bvcIdRegex matches
platformLength(s) ==
  CHOOSE p \in 2..5 : AllIn(SubSeq(s, 5, 4 + p), Upper) /\ s[5 + p] = "-"

\* part_008 20-23: extractPlatformFromBvcId; null is <<>>
extractPlatformFromBvcId(bvcId) ==
  IF bvcIdRegex(bvcId) THEN SubSeq(bvcId, 5, 4 + platformLength(bvcId))
  ELSE <<>>

\* part_008 26-29: extractYearFromBvcId; null is -1
extractYearFromBvcId(bvcId) ==
  IF bvcIdRegex(bvcId)
  THEN parseInt(SubSeq(bvcId, 6 + platformLength(bvcId),
                       9 + platformLength(bvcId)))
  ELSE -1

\* part_008 32-35: extractEntryIdFromBvcId; null is -1
extractEntryIdFromBvcId(bvcId) ==
  IF bvcIdRegex(bvcId)
  THEN parseInt(SubSeq(bvcId, 11 + platformLength(bvcId), Len(bvcId)))
  ELSE -1

\* ------------------------------------------------- Discovery-Date Validator
\* a validator that caps every month at 31 days
validateDiscoveryDateNoMonthCaps(discoveryDate) ==
  IF discoveryDate = <<>> THEN <<FALSE, "Discovery date cannot be empty">>
  ELSE IF Len(discoveryDate) = 4 THEN
    IF ~yearRegex(discoveryDate)
      THEN <<FALSE, "Year must contain only digits">>
    ELSE IF parseInt(discoveryDate) < 1990 \/ parseInt(discoveryDate) > 9999
      THEN <<FALSE, "Year must be between 1990 and 9999">>
    ELSE <<TRUE, "">>
  ELSE IF Len(discoveryDate) = 10 THEN
    IF ~fullDateRegex(discoveryDate)
      THEN <<FALSE, "Discovery date must be in YYYY-MM-DD format">>
    ELSE
      LET year == parseInt(SubSeq(discoveryDate, 1, 4))
          month == parseInt(SubSeq(discoveryDate, 6, 7))
          day == parseInt(SubSeq(discoveryDate, 9, 10))
      IN IF year < 1990 \/ year > 9999
           THEN <<FALSE, "Year must be between 1990 and 9999">>
         ELSE IF month < 1 \/ month > 12
           THEN <<FALSE, "Month must be between 1 and 12">>
         ELSE IF day < 1 \/ day > 31
           THEN <<FALSE, "Day must be between 1 and 31">>
         ELSE <<TRUE, "">>
  ELSE <<FALSE, "Discovery date must be in YYYY or YYYY-MM-DD format">>

\* services/blockchain.js validateDiscoveryDate: [isValid, errorMessage]
validateDiscoveryDate(discoveryDate) ==
  IF discoveryDate = <<>> THEN <<FALSE, "Discovery date cannot be empty">>
  ELSE IF Len(discoveryDate) = 4 THEN
    IF ~yearRegex(discoveryDate)
      THEN <<FALSE, "Year must contain only digits">>
    ELSE IF parseInt(discoveryDate) < 1990 \/ parseInt(discoveryDate) > 9999
      THEN <<FALSE, "Year must be between 1990 and 9999">>
    ELSE <<TRUE, "">>
  ELSE IF Len(discoveryDate) = 10 THEN
    IF ~fullDateRegex(discoveryDate)
      THEN <<FALSE, "Discovery date must be in YYYY-MM-DD format">>
    ELSE
      LET year == parseInt(SubSeq(discoveryDate, 1, 4))
          month == parseInt(SubSeq(discoveryDate, 6, 7))
          day == parseInt(SubSeq(discoveryDate, 9, 10))
      IN IF year < 1990 \/ year > 9999
           THEN <<FALSE, "Year must be between 1990 and 9999">>
         ELSE IF month < 1 \/ month > 12
           THEN <<FALSE, "Month must be between 1 and 12">>
         ELSE IF day < 1 \/ day > 31
           THEN <<FALSE, "Day must be between 1 and 31">>
         ELSE IF month = 2 /\ day > 29
           THEN <<FALSE, "February has at most 29 days">>
         ELSE IF month \in {4, 6, 9, 11} /\ day > 30
           THEN <<FALSE, "This month has at most 30 days">>
         ELSE <<TRUE, "">>
  ELSE <<FALSE, "Discovery date must be in YYYY or YYYY-MM-DD format">>

\* an extractor that reads the year of the YYYY shape only
extractYearFromDateYearOnly(discoveryDate) ==
  IF discoveryDate = <<>> THEN 0
  ELSE IF Len(discoveryDate) = 4 /\ yearRegex(discoveryDate)
    THEN parseInt(discoveryDate)
  ELSE 0

\* blockchain.js 397-420: extractYearFromDate
extractYearFromDate(discoveryDate) ==
  IF discoveryDate = <<>> THEN 0
  ELSE IF Len(discoveryDate) = 4 /\ yearRegex(discoveryDate)
    THEN parseInt(discoveryDate)
  ELSE IF Len(discoveryDate) = 10 /\ fullDateRegex(discoveryDate)
    THEN parseInt(substring0(discoveryDate, 4))
  ELSE 0

\* ------------------------------------------------------------------ inputs
ETH == <<"E", "T", "H">>
SOL == <<"S", "O", "L">>
LowerEth == <<"e", "t", "h">>
Date20230515 == <<"2", "0", "2", "3", "-", "0", "5", "-", "1", "5">>
Date2023 == <<"2", "0", "2", "3">>
Date20230230 == <<"2", "0", "2", "3", "-", "0", "2", "-", "3", "0">>
Date1989 == <<"1", "9", "8", "9">>
TextIdA == <<"V", "U", "L", "N", "-", "A">>
TextIdBvc == BVC \o SOL \o Dash \o Date2023 \o Dash \o <<"0", "0", "1">>
TitleT == <<"T">>
DescD == <<"D">>

\* a vulnerability document (the parsed JSON file); a missing field is <<>>
MkDoc(id, title, platform, date) ==
  [id |-> id, title |-> title, description |-> DescD,
   platform |-> platform, discoveryDate |-> date]

NoDoc == [MkDoc(<<>>, <<>>, <<>>, <<>>) EXCEPT !.description = <<>>]

\* documents that pass every validation: one without a text identifier and
\* one whose text identifier is the BvcId the ledger will assign to it
ValidDocs ==
  { MkDoc(<<>>, TitleT, ETH, Date2023),
    MkDoc(TextIdBvc, TitleT, SOL, Date20230515) }

\* documents with a day beyond the month's cap, a missing field, a platform
\* in lower case and a year before 1990
InvalidDocs ==
  { MkDoc(TextIdA, TitleT, ETH, Date20230230),
    MkDoc(TextIdA, <<>>, ETH, Date20230515),
    MkDoc(TextIdA, TitleT, LowerEth, Date20230515),
    MkDoc(TextIdA, TitleT, ETH, Date1989) }

Docs == ValidDocs \cup InvalidDocs

\* ------------------------------------------------------------------- state
VARIABLES
  vulns,     \* ledger: BaseId -> [bvcId, isActive, versions]
  order,     \* ledger: the BaseIds in creation order
  counter,   \* ledger: <<platform, year>> -> last sequence number used
  pins,      \* content store: the content hashes that are pinned
  now,       \* Date.now()
  created,   \* number of create requests started
  req,       \* the create requests in progress, one per slot
  resp,      \* the response being sent, NoResp once it has been delivered
  mockDatabase  \* the in-memory set of content hashes of the revisions of
                \* the server that keep one (part_003 402); empty elsewhere

vars == <<vulns, order, counter, pins, now, created, req, resp, mockDatabase>>

Slots == {1, 2}

\* ----------------------------------------------------------- content store
\* a content hash addresses the bytes: equal bytes, equal hash
Cid(doc) == [content |-> doc]
NoCid == Cid(NoDoc)

\* Content Store put(bytes, name) -> contentHash
StorePut(store, doc, name) == store \cup {Cid(doc)}

\* part_003 1002-1018: the pin of the hash is removed from the store
unpinFromIPFS(store, cid) == store \ {cid}

\* Content Store get(contentHash): the bytes when the hash is pinned
StoreHas(store, cid) == cid \in store

\* ------------------------------------------------------------------ ledger
CounterOf(ctr, platform, year) ==
  IF <<platform, year>> \in DOMAIN ctr THEN ctr[<<platform, year>>] ELSE 0

\* zero-padded sequence number of at least three digits
Pad3(n) ==
  IF n < 10 THEN <<"0", "0">> \o toDigits(n)
  ELSE IF n < 100 THEN <<"0">> \o toDigits(n)
  ELSE toDigits(n)

MkBvcId(platform, year, seq) ==
  BVC \o platform \o Dash \o year \o Dash \o Pad3(seq)

\* contract.preGenerateBvcId: the BvcId the next first submission would get
LedgerPreGenerateBvcId(ctr, platform, discoveryDate) ==
  LET year == substring0(discoveryDate, 4)
  IN MkBvcId(platform, year, CounterOf(ctr, platform, year) + 1)

LedgerExists(v, baseId) == baseId \in DOMAIN v

MkVersion(doc, cid) ==
  [ipfsCid |-> cid, platform |-> doc.platform,
   discoveryDate |-> doc.discoveryDate, title |-> doc.title]

\* submitVulnerability: the BvcId the transaction reports
LedgerSubmitBvcId(v, ctr, baseId, doc) ==
  IF LedgerExists(v, baseId) THEN v[baseId].bvcId
  ELSE LedgerPreGenerateBvcId(ctr, doc.platform, doc.discoveryDate)

\* submitVulnerability: the records after the transaction
LedgerSubmitVulns(v, ctr, baseId, doc, cid) ==
  IF LedgerExists(v, baseId)
  THEN [v EXCEPT ![baseId].versions = Append(@, MkVersion(doc, cid))]
  ELSE [b \in DOMAIN v \cup {baseId} |->
          IF b = baseId
          THEN [bvcId |-> LedgerSubmitBvcId(v, ctr, baseId, doc),
                isActive |-> TRUE,
                versions |-> <<MkVersion(doc, cid)>>]
          ELSE v[b]]

\* submitVulnerability: the sequence counters after the transaction
LedgerSubmitCounter(v, ctr, baseId, doc) ==
  IF LedgerExists(v, baseId) THEN ctr
  ELSE LET k == <<doc.platform, substring0(doc.discoveryDate, 4)>>
       IN [x \in DOMAIN ctr \cup {k} |->
             IF x = k THEN CounterOf(ctr, k[1], k[2]) + 1 ELSE ctr[x]]

\* submitVulnerability: the creation order after the transaction
LedgerSubmitOrder(v, ord, baseId) ==
  IF LedgerExists(v, baseId) THEN ord ELSE Append(ord, baseId)

\* the BaseId a BvcId or a BaseId names, <<>> when it names none
LedgerResolve(v, id) ==
  IF id \in DOMAIN v THEN id
  ELSE IF \E b \in DOMAIN v : v[b].bvcId = id
    THEN CHOOSE b \in DOMAIN v : v[b].bvcId = id
  ELSE <<>>

MkRecord(v, b, n) ==
  [ok |-> TRUE, bvc_id |-> v[b].bvcId, version |-> n, baseId |-> b,
   ipfsCid |-> v[b].versions[n].ipfsCid,
   platform |-> v[b].versions[n].platform,
   discoveryDate |-> v[b].versions[n].discoveryDate,
   isActive |-> v[b].isActive, error |-> ""]

NotFound ==
  [ok |-> FALSE, bvc_id |-> <<>>, version |-> 0, baseId |-> <<>>,
   ipfsCid |-> NoCid, platform |-> <<>>, discoveryDate |-> <<>>,
   isActive |-> FALSE, error |-> "Vulnerability does not exist"]

Unreachable == [NotFound EXCEPT !.error = "network error"]

\* fetchLatest(bvcIdOrBaseId) -> VulnerabilityRecord | NotFound
LedgerFetchLatest(v, id) ==
  LET b == LedgerResolve(v, id)
  IN IF b = <<>> THEN NotFound ELSE MkRecord(v, b, Len(v[b].versions))

\* fetchVersion(baseId, version) -> VulnerabilityRecord | NotFound
LedgerFetchVersion(v, baseId, n) ==
  IF LedgerExists(v, baseId) /\ n \in 1..Len(v[baseId].versions)
  THEN MkRecord(v, baseId, n) ELSE NotFound

\* listVersions(baseId): the BvcId of version 1..N, in ascending order
LedgerListVersions(v, baseId) ==
  [n \in 1..Len(v[baseId].versions) |-> v[baseId].bvcId]

\* listAllBaseIds() -> {baseIds, bvcIds}, parallel sequences
LedgerAllBaseIds(ord) == ord
LedgerAllBvcIds(v, ord) == [i \in 1..Len(ord) |-> v[ord[i]].bvcId]

Min(a, b) == IF a < b THEN a ELSE b

\* listPage(page, pageSize): page is 1-indexed, creation order
LedgerListPage(v, ord, page, pageSize) ==
  LET all == LedgerAllBvcIds(v, ord)
      first == (page - 1) * pageSize + 1
      last == Min(page * pageSize, Len(all))
  IN SubSeq(all, first, last)

RECURSIVE SelectByPlatform(_, _, _)
SelectByPlatform(v, ord, platform) ==
  IF ord = <<>> THEN <<>>
  ELSE LET rest == SelectByPlatform(v, Tail(ord), platform)
       IN IF v[Head(ord)].versions[1].platform = platform
          THEN <<v[Head(ord)].bvcId>> \o rest ELSE rest

\* the BvcIds of one platform, creation order
LedgerListByPlatform(v, ord, platform) == SelectByPlatform(v, ord, platform)

\* setActive(baseId, isActive)
LedgerSetActive(v, baseId, isActive) ==
  [v EXCEPT ![baseId].isActive = isActive]

\* ---------------------------------------------------------------- requests
\* a create request between two awaits
Idle ==
  [pc |-> "idle", doc |-> NoDoc, preBvcId |-> <<>>, ipfsFilename |-> <<>>,
   ipfsCid |-> NoCid, baseId |-> <<>>, bvcId |-> <<>>, authBvcId |-> <<>>,
   first |-> FALSE, calls |-> <<>>, uploads |-> <<>>, ids |-> <<>>,
   cidsInUse |-> {}, page |-> 0, pageSize |-> 0]

\* a response; the fields an operation does not use keep these values
NoResp ==
  [op |-> "none", id |-> <<>>, page |-> 0, pageSize |-> 0, status |-> 0,
   error |-> "", baseId |-> <<>>, enumerated |-> <<>>, ids |-> <<>>,
   entries |-> <<>>, total |-> 0, calls |-> <<>>, uploads |-> <<>>,
   doc |-> NoDoc, bvcId |-> <<>>, authBvcId |-> <<>>, first |-> FALSE,
   ipfsCid |-> NoCid, isActive |-> FALSE, failed |-> {},
   down |-> {}, health |-> "", valid |-> FALSE, platform |-> <<>>,
   year |-> 0, seq |-> 0, checks |-> {}, provider |-> <<>>, result |-> "",
   blockNumber |-> -1, totalPages |-> 0, hasNextPage |-> FALSE]

Init ==
  /\ vulns = <<>>
  /\ order = <<>>
  /\ counter = <<>>
  /\ pins = {}
  /\ now = 0
  /\ created = 0
  /\ req = [s \in Slots |-> Idle]
  /\ resp = NoResp
  /\ mockDatabase = {}

\* the clock of the process advances
Tick ==
  /\ now < MaxNow
  /\ now' = now + 1
  /\ UNCHANGED <<mockDatabase, vulns, order, counter, pins, created, req, resp>>

\* the response is delivered to the client; a handler without awaits the
\* model depends on runs after the previous response has been delivered
Deliver ==
  /\ resp # NoResp
  /\ resp' = NoResp
  /\ UNCHANGED <<mockDatabase, vulns, order, counter, pins, now, created, req>>

\* ------------------------------------------------------------------ create
\* create.js 86-92: the required fields that are missing
missingFields(doc) ==
  {f \in {"title", "description", "platform", "discoveryDate"} : doc[f] = <<>>}

\* create.js 86-122: the validation done before the first await;
\* 0 when the document passes, else the status of the response
routeValidation(doc) ==
  IF missingFields(doc) # {} THEN 400
  ELSE IF ~platformRegex(doc.platform) THEN 400
  ELSE IF ~dateRegex(doc.discoveryDate) THEN 400
  ELSE IF parseInt(substring0(doc.discoveryDate, 4)) < 1990
          \/ parseInt(substring0(doc.discoveryDate, 4)) > 9999 THEN 400
  ELSE 0

\* create.js 273-286: the status of a failed submission
failureStatus(message) == IF message = "already exists" THEN 409 ELSE 500

\* create.js 256-286: the response of a create request
createResponse(r, status, error) ==
  [NoResp EXCEPT !.op = "create", !.status = status, !.error = error,
                 !.doc = r.doc, !.calls = r.calls, !.uploads = r.uploads,
                 !.baseId = r.baseId,
                 !.bvcId = r.bvcId, !.authBvcId = r.authBvcId,
                 !.first = r.first, !.ipfsCid = r.ipfsCid]

\* create.js 67-122: a create request arrives and is validated; the slots
\* are interchangeable, the request takes the lowest free one
AddVulnerabilityStart(s, doc) ==
  /\ req[s].pc = "idle"
  /\ \A t \in Slots : t < s => req[t].pc # "idle"
  /\ created < MaxCreates
  /\ created' = created + 1
  /\ IF routeValidation(doc) # 0
     THEN /\ resp' = createResponse([Idle EXCEPT !.doc = doc],
                                    routeValidation(doc), "validation")
          /\ req' = req
     ELSE /\ req' = [req EXCEPT ![s] = [Idle EXCEPT !.pc = "pregen",
                                                   !.doc = doc]]
          /\ resp' = resp
  /\ UNCHANGED <<mockDatabase, vulns, order, counter, pins, now>>

\* create.js 137-150: the name of the provisional upload
provisionalFilename(doc, preBvcId, t) ==
  IF preBvcId # <<>> THEN preBvcId \o JsonExt
  ELSE BVC \o doc.platform \o Dash \o substring0(doc.discoveryDate, 4)
       \o Dash \o <<"0", "0", "1">> \o Dash \o toDigits(t) \o JsonExt

\* create.js 124-150 with blockchain.js 30-57: the pre-generation call
\* returns (ok) or fails (~ok), and the name of the upload is chosen
AddVulnerabilityPreGen(s, ok) ==
  /\ req[s].pc = "pregen"
  /\ LET r == req[s]
         pre == IF ok THEN LedgerPreGenerateBvcId(counter, r.doc.platform,
                                                  r.doc.discoveryDate)
                ELSE <<>>
     IN req' = [req EXCEPT ![s] =
          [r EXCEPT !.pc = "upload", !.preBvcId = pre,
                    !.ipfsFilename = provisionalFilename(r.doc, pre, now),
                    !.calls = Append(@, "ledger.preGenerateBvcId")]]
  /\ UNCHANGED <<mockDatabase, vulns, order, counter, pins, now, created, resp>>

\* a derivation that salts the text identifier with the time of the request
deriveBaseIdSalted(doc, t) ==
  IF doc.id # <<>> THEN generateBaseId(doc.id \o Dash \o toDigits(t))
  ELSE sha256Hex(doc.platform \o Dash \o doc.title \o Dash \o toDigits(t))

\* create.js 157-169: the BaseId of the document
deriveBaseId(doc, t) ==
  IF doc.id # <<>> THEN generateBaseId(doc.id)
  ELSE sha256Hex(doc.platform \o Dash \o doc.title \o Dash \o toDigits(t))

\* create.js 152-169 and blockchain.js 92-101: the upload returns (ok) or
\* fails, the BaseId is derived and the date is validated before the submit
AddVulnerabilityUpload(s, ok) ==
  /\ req[s].pc = "upload"
  /\ LET r == [req[s] EXCEPT !.calls = Append(@, "store.put"),
                               !.uploads = Append(@, req[s].ipfsFilename)]
         u == [r EXCEPT !.ipfsCid = Cid(r.doc),
                        !.baseId = deriveBaseId(r.doc, now)]
     IN IF ~ok
        THEN /\ resp' = createResponse(r, failureStatus("store"), "store")
             /\ req' = [req EXCEPT ![s] = Idle]
             /\ pins' = pins
        ELSE /\ pins' = StorePut(pins, r.doc, r.ipfsFilename)
             /\ IF validateDiscoveryDate(r.doc.discoveryDate)[1]
                THEN /\ req' = [req EXCEPT ![s] = [u EXCEPT !.pc = "submit"]]
                     /\ resp' = resp
                ELSE /\ req' = [req EXCEPT ![s] = Idle]
                     /\ resp' = createResponse(u,
                                  failureStatus("Invalid discoveryDate"),
                                  "Invalid discoveryDate")
  /\ UNCHANGED <<mockDatabase, vulns, order, counter, now, created>>

\* String.prototype.replace('.json', '') of a name that ends in .json
replaceJson(name) ==
  IF Len(name) >= Len(JsonExt)
     /\ SubSeq(name, Len(name) - Len(JsonExt) + 1, Len(name)) = JsonExt
  THEN SubSeq(name, 1, Len(name) - Len(JsonExt)) ELSE name

\* create.js 210-226: the BvcId the response reports
reportedBvcId(preBvcId, eventBvcId) ==
  IF preBvcId # <<>> THEN preBvcId ELSE eventBvcId

\* a submit step that removes the pin of the upload when the transaction fails
AddVulnerabilitySubmitCompensating(s, outcome) ==
  /\ req[s].pc = "submit"
  /\ LET r == [req[s] EXCEPT !.calls = Append(@, "ledger.submitVulnerability")]
         c == [r EXCEPT !.calls = Append(@, "store.unpin")]
         auth == LedgerSubmitBvcId(vulns, counter, r.baseId, r.doc)
         bvcId == reportedBvcId(r.preBvcId, auth)
         u == [r EXCEPT !.bvcId = bvcId, !.authBvcId = auth,
                        !.first = ~LedgerExists(vulns, r.baseId)]
     IN IF outcome # "ok"
        THEN /\ resp' = createResponse(c, failureStatus(outcome), outcome)
             /\ req' = [req EXCEPT ![s] = Idle]
             /\ pins' = unpinFromIPFS(pins, r.ipfsCid)
             /\ UNCHANGED <<vulns, order, counter>>
        ELSE /\ vulns' = LedgerSubmitVulns(vulns, counter, r.baseId, r.doc,
                                           r.ipfsCid)
             /\ order' = LedgerSubmitOrder(vulns, order, r.baseId)
             /\ counter' = LedgerSubmitCounter(vulns, counter, r.baseId, r.doc)
             /\ pins' = pins
             /\ IF bvcId # <<>> /\ bvcId # replaceJson(r.ipfsFilename)
                THEN /\ req' = [req EXCEPT ![s] = [u EXCEPT !.pc = "reupload"]]
                     /\ resp' = resp
                ELSE /\ req' = [req EXCEPT ![s] = Idle]
                     /\ resp' = createResponse(u, 201, "")
  /\ UNCHANGED <<mockDatabase, now, created>>

\* create.js 195-271: the transaction is confirmed (outcome "ok") or fails
AddVulnerabilitySubmit(s, outcome) ==
  /\ req[s].pc = "submit"
  /\ LET r == [req[s] EXCEPT !.calls = Append(@, "ledger.submitVulnerability")]
         auth == LedgerSubmitBvcId(vulns, counter, r.baseId, r.doc)
         bvcId == reportedBvcId(r.preBvcId, auth)
         u == [r EXCEPT !.bvcId = bvcId, !.authBvcId = auth,
                        !.first = ~LedgerExists(vulns, r.baseId)]
     IN IF outcome # "ok"
        THEN /\ resp' = createResponse(r, failureStatus(outcome), outcome)
             /\ req' = [req EXCEPT ![s] = Idle]
             /\ UNCHANGED <<vulns, order, counter>>
        ELSE /\ vulns' = LedgerSubmitVulns(vulns, counter, r.baseId, r.doc,
                                           r.ipfsCid)
             /\ order' = LedgerSubmitOrder(vulns, order, r.baseId)
             /\ counter' = LedgerSubmitCounter(vulns, counter, r.baseId, r.doc)
             /\ IF bvcId # <<>> /\ bvcId # replaceJson(r.ipfsFilename)
                THEN /\ req' = [req EXCEPT ![s] = [u EXCEPT !.pc = "reupload"]]
                     /\ resp' = resp
                ELSE /\ req' = [req EXCEPT ![s] = Idle]
                     /\ resp' = createResponse(u, 201, "")
  /\ UNCHANGED <<mockDatabase, pins, now, created>>

\* create.js 228-271: the content is uploaded again under the BvcId; whether
\* the upload returns or fails, the response is 201 with the first hash
AddVulnerabilityReupload(s, ok) ==
  /\ req[s].pc = "reupload"
  /\ LET r == [req[s] EXCEPT !.calls = Append(@, "store.put"),
                               !.uploads = Append(@, req[s].bvcId \o JsonExt)]
     IN /\ pins' = IF ok THEN StorePut(pins, r.doc, r.bvcId \o JsonExt)
                   ELSE pins
        /\ req' = [req EXCEPT ![s] = Idle]
        /\ resp' = createResponse(r, 201, "")
  /\ UNCHANGED <<mockDatabase, vulns, order, counter, now, created>>

SubmitOutcomes == {"ok", "reverted", "already exists"}

Create ==
  \E s \in Slots :
    \/ \E doc \in Docs : AddVulnerabilityStart(s, doc)
    \/ \E ok \in BOOLEAN : AddVulnerabilityPreGen(s, ok)
    \/ \E ok \in BOOLEAN : AddVulnerabilityUpload(s, ok)
    \/ \E outcome \in SubmitOutcomes : AddVulnerabilitySubmit(s, outcome)
    \/ \E ok \in BOOLEAN : AddVulnerabilityReupload(s, ok)

\* ----------------------------------------------------------- status toggle
\* ethers encodes a bytes32 argument, and throws for any other string
EncodesAsBytes32(x) == isLikelyBaseId(x)

\* status.js (create.js 315-317) and versions.js (part_009 59-61):
\* the BaseId the handler passes to the ledger gateway
resolveBaseId(id) == IF startsWith(id, BVC) THEN generateBaseId(id) ELSE id

\* the error a ledger call keyed by baseId raises, "" when it raises none
LedgerCallError(v, baseId, reachable) ==
  IF ~EncodesAsBytes32(baseId) THEN "invalid BytesLike value"
  ELSE IF ~reachable THEN "network error"
  ELSE IF ~LedgerExists(v, baseId) THEN "Vulnerability does not exist"
  ELSE ""

\* String.prototype.includes('does not exist') on a ledger error message
includesDoesNotExist(message) == message = "Vulnerability does not exist"

\* create.js 308-330: the response of a status toggle
setVulnerabilityStatusResponse(v, id, isActive, reachable) ==
  LET baseId == resolveBaseId(id)
      err == LedgerCallError(v, baseId, reachable)
      r == [NoResp EXCEPT !.op = "setStatus", !.id = id,
                          !.isActive = isActive]
  IN IF id = <<>> THEN [r EXCEPT !.status = 400, !.error = "validation"]
     ELSE IF err # ""
       THEN [r EXCEPT !.status = 500, !.error = err, !.baseId = baseId,
                      !.calls = <<"ledger.setActive">>]
     ELSE [r EXCEPT !.status = 200, !.baseId = baseId,
                    !.calls = <<"ledger.setActive">>]

\* a toggle that re-registers the latest version with the new flag
SetVulnerabilityStatusByResubmission(id, isActive, reachable) ==
  /\ resp = NoResp
  /\ resp' = setVulnerabilityStatusResponse(vulns, id, isActive, reachable)
  /\ vulns' = IF resp'.status = 200
              THEN LET b == resp'.baseId
                       vs == vulns[b].versions
                   IN [LedgerSetActive(vulns, b, isActive) EXCEPT
                         ![b].versions = Append(vs, vs[Len(vs)])]
              ELSE vulns
  /\ UNCHANGED <<mockDatabase, order, counter, pins, now, created, req>>

\* create.js 308-330: a status toggle request is served
SetVulnerabilityStatus(id, isActive, reachable) ==
  /\ resp = NoResp
  /\ resp' = setVulnerabilityStatusResponse(vulns, id, isActive, reachable)
  /\ vulns' = IF resp'.status = 200
              THEN LedgerSetActive(vulns, resp'.baseId, isActive) ELSE vulns
  /\ UNCHANGED <<mockDatabase, order, counter, pins, now, created, req>>

\* ------------------------------------------------------------------- reads
NoEntry ==
  [bvc_id |-> <<>>, baseId |-> <<>>, version |-> 0, platform |-> <<>>,
   discoveryDate |-> <<>>, ipfsCid |-> NoCid, isActive |-> FALSE,
   body |-> NoDoc, error |-> ""]

\* the entry a handler builds from a ledger record and the content body
MkEntry(rec, store, storeUp) ==
  [bvc_id |-> rec.bvc_id, baseId |-> rec.baseId, version |-> rec.version,
   platform |-> rec.platform, discoveryDate |-> rec.discoveryDate,
   ipfsCid |-> rec.ipfsCid, isActive |-> rec.isActive,
   body |-> IF storeUp /\ StoreHas(store, rec.ipfsCid)
            THEN rec.ipfsCid.content ELSE NoDoc,
   error |-> ""]

\* blockchain.js 59-65: getVulnerability of the ledger gateway
getVulnerabilityCall(v, id, reachable) ==
  IF reachable THEN LedgerFetchLatest(v, id) ELSE Unreachable

\* blockchain.js 5-21: the message of the error the gateway rethrows: the
\* name of the decoded revert error when the error carries revert data the
\* contract interface parses (decodedName # ""), else the original message
handleContractError(message, decodedName) ==
  IF decodedName # "" THEN decodedName ELSE message

\* the names parseError can decode a revert to; "" when the error carries
\* no revert data. A revert with a reason string decodes to Error(string)
DecodedNames == {"", "Error"}

\* the message of the error blockchain.getVulnerability throws for rec
thrownMessage(rec, reachable, decodedName) ==
  IF reachable THEN handleContractError(rec.error, decodedName) ELSE rec.error

\* a fetch-one handler that hashes a BvcId before it calls the ledger
getVulnerabilityHashingBvcId(v, store, id, reachable, storeUp, decodedName) ==
  LET rec == getVulnerabilityCall(v, resolveBaseId(id), reachable)
      msg == thrownMessage(rec, reachable, decodedName)
      r == [NoResp EXCEPT !.op = "getVulnerability", !.id = id,
                          !.calls = <<"ledger.fetchLatest">>]
  IN IF rec.ok
     THEN [r EXCEPT !.status = 200, !.entries = <<MkEntry(rec, store, storeUp)>>,
                    !.calls = Append(@, "store.get")]
     ELSE IF includesDoesNotExist(msg)
       THEN [r EXCEPT !.status = 404, !.error = msg]
     ELSE [r EXCEPT !.status = 500, !.error = msg]

\* a fetch-one handler that lets a content store failure propagate
getVulnerabilityStrictStore(v, store, id, reachable, storeUp, decodedName) ==
  LET rec == getVulnerabilityCall(v, id, reachable)
      msg == thrownMessage(rec, reachable, decodedName)
      r == [NoResp EXCEPT !.op = "getVulnerability", !.id = id,
                          !.calls = <<"ledger.fetchLatest">>]
  IN IF rec.ok /\ storeUp
     THEN [r EXCEPT !.status = 200, !.entries = <<MkEntry(rec, store, storeUp)>>,
                    !.calls = Append(@, "store.get")]
     ELSE IF rec.ok
       THEN [r EXCEPT !.status = 500, !.error = "store",
                      !.calls = Append(@, "store.get")]
     ELSE IF includesDoesNotExist(msg)
       THEN [r EXCEPT !.status = 404, !.error = msg]
     ELSE [r EXCEPT !.status = 500, !.error = msg]

\* part_010 11-83: the response of fetch-one
getVulnerabilityResponse(v, store, id, reachable, storeUp, decodedName) ==
  LET rec == getVulnerabilityCall(v, id, reachable)
      msg == thrownMessage(rec, reachable, decodedName)
      r == [NoResp EXCEPT !.op = "getVulnerability", !.id = id,
                          !.calls = <<"ledger.fetchLatest">>]
  IN IF rec.ok
     THEN [r EXCEPT !.status = 200, !.entries = <<MkEntry(rec, store, storeUp)>>,
                    !.calls = Append(@, "store.get")]
     ELSE IF includesDoesNotExist(msg)
       THEN [r EXCEPT !.status = 404, !.error = msg]
     ELSE [r EXCEPT !.status = 500, !.error = msg]

\* part_010 11-83: a fetch-one request is served
GetVulnerability(id, reachable, storeUp, decodedName) ==
  /\ resp = NoResp
  /\ resp' = getVulnerabilityResponse(vulns, pins, id, reachable, storeUp,
                                      decodedName)
  /\ UNCHANGED <<mockDatabase, vulns, order, counter, pins, now, created, req>>

\* part_009 67-101: one entry per BvcId whose detail fetch returns, in order;
\* the detail fetch of the BvcIds at the positions in failing throws
RECURSIVE versionEntries(_, _, _, _, _)
versionEntries(v, store, bvcIds, i, failing) ==
  IF i > Len(bvcIds) THEN <<>>
  ELSE LET rec == getVulnerabilityCall(v, bvcIds[i], i \notin failing)
           rest == versionEntries(v, store, bvcIds, i + 1, failing)
       IN IF rec.ok THEN <<MkEntry(rec, store, FALSE)>> \o rest ELSE rest

\* part_009 55-111: the response of version history
getVulnerabilityVersionsResponse(v, store, id, reachable, failing) ==
  LET baseId == resolveBaseId(id)
      err == LedgerCallError(v, baseId, reachable)
      r == [NoResp EXCEPT !.op = "getVulnerabilityVersions", !.id = id,
                          !.baseId = baseId,
                          !.calls = <<"ledger.listVersions">>]
  IN IF err # ""
     THEN [r EXCEPT !.status = IF includesDoesNotExist(err) THEN 404 ELSE 500,
                    !.error = err]
     ELSE [r EXCEPT !.status = 200,
                    !.enumerated = LedgerListVersions(v, baseId),
                    !.failed = failing \cap
                               (1..Len(LedgerListVersions(v, baseId))),
                    !.entries = versionEntries(v, store,
                                  LedgerListVersions(v, baseId), 1, failing)]

\* part_009 55-111: a version-history request is served
GetVulnerabilityVersions(id, reachable, failing) ==
  /\ resp = NoResp
  /\ resp' = getVulnerabilityVersionsResponse(vulns, pins, id, reachable,
                                              failing)
  /\ UNCHANGED <<mockDatabase, vulns, order, counter, pins, now, created, req>>

\* part_010 100-147, 187-240, 340-393: one entry per BvcId whose detail
\* fetch returns, in order; the detail fetch of the BvcIds at the positions
\* in failing throws and the handler skips the entry
RECURSIVE listEntries(_, _, _, _, _, _)
listEntries(v, store, bvcIds, i, failing, storeUp) ==
  IF i > Len(bvcIds) THEN <<>>
  ELSE LET rec == getVulnerabilityCall(v, bvcIds[i], i \notin failing)
           rest == listEntries(v, store, bvcIds, i + 1, failing, storeUp)
       IN IF rec.ok THEN <<MkEntry(rec, store, storeUp)>> \o rest ELSE rest

\* part_010 89-155: the response of fetch-all
getAllVulnerabilitiesResponse(v, ord, store, reachable, failing, storeUp) ==
  LET r == [NoResp EXCEPT !.op = "getAllVulnerabilities",
                          !.calls = <<"ledger.listAllBaseIds">>]
      bvcIds == LedgerAllBvcIds(v, ord)
  IN IF ~reachable THEN [r EXCEPT !.status = 500, !.error = "network error"]
     ELSE IF Len(LedgerAllBaseIds(ord)) = 0
       THEN [r EXCEPT !.status = 404, !.error = "No vulnerabilities found"]
     ELSE [r EXCEPT !.status = 200, !.enumerated = bvcIds,
                    !.failed = failing \cap (1..Len(bvcIds)),
                    !.entries = listEntries(v, store, bvcIds, 1, failing,
                                            storeUp)]

\* parseInt(req.query.x) || d, where 0 stands for an absent or zero value
orDefault(q, d) == IF q = 0 THEN d ELSE q

DefaultPageSize == 10

\* blockchain.js 321-328: getTotalVulnerabilitiesCount
getTotalVulnerabilitiesCount(ord) == Len(LedgerAllBaseIds(ord))

\* part_010 161-263: the response of fetch-paginated
getPaginatedAllVulnerabilitiesResponse(v, ord, store, qPage, qPageSize, reachable, failing, storeUp) ==
  LET page == orDefault(qPage, 1)
      pageSize == orDefault(qPageSize, DefaultPageSize)
      r == [NoResp EXCEPT !.op = "getPaginatedAllVulnerabilities",
                          !.page = page, !.pageSize = pageSize]
      bvcIds == LedgerListPage(v, ord, page, pageSize)
  IN IF page < 1 \/ pageSize < 1
     THEN [r EXCEPT !.status = 400, !.error = "validation"]
     ELSE IF ~reachable
       THEN [r EXCEPT !.status = 500, !.error = "network error",
                      !.calls = <<"ledger.listPage">>]
     ELSE IF Len(bvcIds) = 0
       THEN [r EXCEPT !.status = 404, !.calls = <<"ledger.listPage">>,
                      !.error = "No vulnerabilities found for this page"]
     ELSE [r EXCEPT !.status = 200, !.enumerated = bvcIds,
                    !.failed = failing \cap (1..Len(bvcIds)),
                    !.calls = <<"ledger.listPage">>,
                    !.entries = listEntries(v, store, bvcIds, 1, failing,
                                            storeUp),
                    !.total = getTotalVulnerabilitiesCount(ord)]

\* a paginated-ids handler that numbers its pages from zero
getPaginatedVulnerabilityIdsZeroBased(v, ord, qPage, qPageSize, reachable) ==
  LET page == orDefault(qPage, 1)
      pageSize == orDefault(qPageSize, DefaultPageSize)
      r == [NoResp EXCEPT !.op = "getPaginatedVulnerabilityIds",
                          !.page = page, !.pageSize = pageSize]
  IN IF page < 1 \/ pageSize < 1
     THEN [r EXCEPT !.status = 400, !.error = "validation"]
     ELSE IF ~reachable
       THEN [r EXCEPT !.status = 500, !.error = "network error",
                      !.calls = <<"ledger.listPage">>]
     ELSE [r EXCEPT !.status = 200, !.calls = <<"ledger.listPage">>,
                    !.ids = LedgerListPage(v, ord, page + 1, pageSize),
                    !.total = getTotalVulnerabilitiesCount(ord)]

\* part_010 269-312: the response of the paginated-ids operation
getPaginatedVulnerabilityIdsResponse(v, ord, qPage, qPageSize, reachable) ==
  LET page == orDefault(qPage, 1)
      pageSize == orDefault(qPageSize, DefaultPageSize)
      r == [NoResp EXCEPT !.op = "getPaginatedVulnerabilityIds",
                          !.page = page, !.pageSize = pageSize]
  IN IF page < 1 \/ pageSize < 1
     THEN [r EXCEPT !.status = 400, !.error = "validation"]
     ELSE IF ~reachable
       THEN [r EXCEPT !.status = 500, !.error = "network error",
                      !.calls = <<"ledger.listPage">>]
     ELSE [r EXCEPT !.status = 200, !.calls = <<"ledger.listPage">>,
                    !.ids = LedgerListPage(v, ord, page, pageSize),
                    !.total = getTotalVulnerabilitiesCount(ord)]

\* part_010 318-413: the response of fetch-by-platform
getAllVulnerabilitiesByPlatformResponse(v, ord, store, platform, reachable, failing, storeUp) ==
  LET r == [NoResp EXCEPT !.op = "getAllVulnerabilitiesByPlatform",
                          !.id = platform]
      bvcIds == LedgerListByPlatform(v, ord, platform)
  IN IF ~platformRegex(platform)
     THEN [r EXCEPT !.status = 400, !.error = "validation"]
     ELSE IF ~reachable
       THEN [r EXCEPT !.status = 500, !.error = "network error",
                      !.calls = <<"ledger.listByPlatform">>]
     ELSE [r EXCEPT !.status = 200, !.enumerated = bvcIds,
                    !.failed = failing \cap (1..Len(bvcIds)),
                    !.calls = <<"ledger.listByPlatform">>,
                    !.entries = listEntries(v, store, bvcIds, 1, failing,
                                            storeUp)]

\* part_010 419-444: the response of the all-ids operation
getAllVulnerabilityIdsResponse(v, ord, reachable) ==
  LET r == [NoResp EXCEPT !.op = "getAllVulnerabilityIds",
                          !.calls = <<"ledger.listAllBaseIds">>]
  IN IF ~reachable THEN [r EXCEPT !.status = 500, !.error = "network error"]
     ELSE [r EXCEPT !.status = 200, !.ids = LedgerAllBvcIds(v, ord)]

\* part_010 89-155: a fetch-all request is served
GetAllVulnerabilities(reachable, failing, storeUp) ==
  /\ resp = NoResp
  /\ resp' = getAllVulnerabilitiesResponse(vulns, order, pins, reachable,
                                           failing, storeUp)
  /\ UNCHANGED <<mockDatabase, vulns, order, counter, pins, now, created, req>>

\* part_010 161-263: a fetch-paginated request is served
GetPaginatedAllVulnerabilities(qPage, qPageSize, reachable, failing, storeUp) ==
  /\ resp = NoResp
  /\ resp' = getPaginatedAllVulnerabilitiesResponse(vulns, order, pins, qPage,
                 qPageSize, reachable, failing, storeUp)
  /\ UNCHANGED <<mockDatabase, vulns, order, counter, pins, now, created, req>>

\* part_010 269-290: a paginated-ids request arrives and the page is read;
\* one paginated request is in progress at a time
GetPaginatedVulnerabilityIds(s, qPage, qPageSize, reachable) ==
  /\ resp = NoResp
  /\ req[s].pc = "idle"
  /\ \A t \in Slots : t < s => req[t].pc # "idle"
  /\ \A t \in Slots : req[t].pc # "total"
  /\ LET r == getPaginatedVulnerabilityIdsResponse(vulns, order, qPage,
                                                   qPageSize, reachable)
     IN IF r.status # 200
        THEN /\ resp' = r
             /\ req' = req
        ELSE /\ req' = [req EXCEPT ![s] =
                          [Idle EXCEPT !.pc = "total", !.ids = r.ids,
                                       !.page = r.page,
                                       !.pageSize = r.pageSize,
                                       !.calls = r.calls]]
             /\ resp' = resp
  /\ UNCHANGED <<mockDatabase, vulns, order, counter, pins, now, created>>

\* Math.ceil(total / pageSize)
ceilDiv(total, pageSize) == (total + pageSize - 1) \div pageSize

\* part_010 291-299 with server.js 884-937: the response once the total has
\* been read
paginatedIdsResponse(r, total) ==
  [NoResp EXCEPT !.op = "getPaginatedVulnerabilityIds", !.status = 200,
                 !.page = r.page, !.pageSize = r.pageSize, !.ids = r.ids,
                 !.calls = Append(r.calls, "ledger.listAllBaseIds"),
                 !.total = total,
                 !.totalPages = ceilDiv(total, r.pageSize),
                 !.hasNextPage = r.page < ceilDiv(total, r.pageSize)]

\* part_010 296 (server.js 884): the total is read and the response is sent
GetPaginatedVulnerabilityIdsTotal(s, reachable) ==
  /\ req[s].pc = "total"
  /\ resp' = IF reachable
             THEN paginatedIdsResponse(req[s],
                                       getTotalVulnerabilitiesCount(order))
             ELSE [NoResp EXCEPT !.op = "getPaginatedVulnerabilityIds",
                                 !.page = req[s].page,
                                 !.pageSize = req[s].pageSize,
                                 !.status = 500, !.error = "network error",
                                 !.calls = Append(req[s].calls,
                                                  "ledger.listAllBaseIds")]
  /\ req' = [req EXCEPT ![s] = Idle]
  /\ UNCHANGED <<mockDatabase, vulns, order, counter, pins, now, created>>

\* part_010 318-413: a fetch-by-platform request is served
GetAllVulnerabilitiesByPlatform(platform, reachable, failing, storeUp) ==
  /\ resp = NoResp
  /\ resp' = getAllVulnerabilitiesByPlatformResponse(vulns, order, pins,
                 platform, reachable, failing, storeUp)
  /\ UNCHANGED <<mockDatabase, vulns, order, counter, pins, now, created, req>>

\* part_010 419-444: an all-ids request is served
GetAllVulnerabilityIds(reachable) ==
  /\ resp = NoResp
  /\ resp' = getAllVulnerabilityIdsResponse(vulns, order, reachable)
  /\ UNCHANGED <<mockDatabase, vulns, order, counter, pins, now, created, req>>

\* ------------------------------------------------------------------ health
Collaborators == {"rpc", "contract", "ipfs"}

\* part_014 8-71: the response of the health check when the collaborators in
\* down do not answer; the three checks run in order and the first failure
\* ends them
healthResponse(down) ==
  LET blockchain_connected == "rpc" \notin down
      contract_accessible == blockchain_connected /\ "contract" \notin down
      ipfs_available == contract_accessible /\ "ipfs" \notin down
      status == IF ipfs_available THEN "OK"
                ELSE IF ~blockchain_connected THEN "SERVICE_UNAVAILABLE"
                ELSE "PARTIAL_OUTAGE"
  IN [NoResp EXCEPT !.op = "health", !.down = down, !.health = status,
                    !.checks =
                      (IF blockchain_connected THEN {"blockchain_connected"}
                       ELSE {})
                      \cup (IF contract_accessible
                            THEN {"contract_accessible"} ELSE {})
                      \cup (IF ipfs_available THEN {"ipfs_available"}
                            ELSE {}),
                    !.status = IF status = "SERVICE_UNAVAILABLE" THEN 503
                               ELSE 200,
                    !.calls = <<"provider.getBlockNumber">>
                              \o (IF blockchain_connected
                                  THEN <<"ledger.listAllBaseIds">> ELSE <<>>)
                              \o (IF contract_accessible
                                  THEN <<"store.head">> ELSE <<>>)]

\* part_014 8-71: a health request is served
Health(down) ==
  /\ resp = NoResp
  /\ resp' = healthResponse(down)
  /\ UNCHANGED <<mockDatabase, vulns, order, counter, pins, now, created, req>>

\* ------------------------------------------- the server with a hash set
\* /^BVC-[A-Z]+-\d+$/
legacyIdRegex(s) ==
  /\ startsWith(s, BVC)
  /\ \E p \in 1..(Len(s) - 6) :
       /\ AllIn(SubSeq(s, 5, 4 + p), Upper)
       /\ s[5 + p] = "-"
       /\ AllIn(SubSeq(s, 6 + p, Len(s)), Digit)

\* ethers.encodeBytes32String: a string of at most 31 bytes is encoded
encodeBytes32StringThrows(id) == Len(id) > 31

LegacyIdA == BVC \o ETH \o Dash \o <<"1">>
LegacyIdB == BVC \o ETH \o Dash \o <<"2">>
LegacyIds == {LegacyIdA, LegacyIdB, TextIdA}

\* the metadata files on disk, by their content; NoDoc is a path without file
LegacyFiles ==
  {MkDoc(<<>>, TitleT, ETH, Date2023), MkDoc(<<>>, TitleT, SOL, Date2023)}

\* crypto.createHash('sha256').update(fileBuffer).digest('hex')
fileHashOf(file) == [sha256 |-> file]

\* contract.addVulnerability(id, title, description, cid) of the contract
\* these revisions talk to: the record the confirmed transaction stores
LegacyLedgerAdd(v, id, file, cid) ==
  [b \in DOMAIN v \cup {id} |->
     IF b = id
     THEN [bvcId |-> id, isActive |-> TRUE,
           versions |-> <<MkVersion(file, cid)>>]
     ELSE v[b]]

\* contract.getVulnerability(id).ipfsCid
LegacyLedgerCid(v, id) == v[id].versions[1].ipfsCid

\* part_003 596-604: the response of a create of these revisions
legacyCreateResponse(r, status, error) ==
  [NoResp EXCEPT !.op = "legacyCreate", !.status = status, !.error = error,
                 !.doc = r.doc, !.baseId = r.baseId, !.ipfsCid = r.ipfsCid,
                 !.calls = r.calls, !.uploads = r.uploads]

\* part_003 499-570: what the handler answers before its first await: 400
\* for a request that fails validation, 409 for a file whose hash is in the
\* set, and 0 when it goes on to upload
legacyStartStatus(db, id, file) ==
  IF ~legacyIdRegex(id) \/ Len(id) > 32 \/ file = NoDoc THEN 400
  ELSE IF encodeBytes32StringThrows(id) THEN 400
  ELSE IF fileHashOf(file) \in db THEN 409
  ELSE 0

\* part_003 536-573: a create request arrives; it is answered 400 or 409, or
\* it issues the upload
LegacyAddVulnerabilityStart(s, id, file) ==
  /\ req[s].pc = "idle"
  /\ \A t \in Slots : t < s => req[t].pc # "idle"
  /\ created < MaxCreates
  /\ created' = created + 1
  /\ LET r == [Idle EXCEPT !.doc = file, !.baseId = id]
         status == legacyStartStatus(mockDatabase, id, file)
     IN IF status # 0
        THEN /\ resp' = legacyCreateResponse(r, status,
                           IF status = 409
                           THEN "Vulnerability already exists in IPFS."
                           ELSE "validation")
             /\ req' = req
        ELSE /\ req' = [req EXCEPT ![s] = [r EXCEPT !.pc = "legacyUpload"]]
             /\ resp' = resp
  /\ UNCHANGED <<mockDatabase, vulns, order, counter, pins, now>>

\* part_003 573-577 and 871-896: the upload returns and the hash of the file
\* is added to the set, or the upload fails and the request is answered 500
LegacyAddVulnerabilityUpload(s, ok) ==
  /\ req[s].pc = "legacyUpload"
  /\ LET r == [req[s] EXCEPT !.calls = Append(@, "store.put"),
                               !.uploads = Append(@, req[s].baseId \o JsonExt)]
     IN IF ~ok
        THEN /\ resp' = legacyCreateResponse(r, 500,
                                             "Error uploading to IPFS")
             /\ req' = [req EXCEPT ![s] = Idle]
             /\ UNCHANGED <<pins, mockDatabase>>
        ELSE /\ pins' = StorePut(pins, r.doc, r.baseId \o JsonExt)
             /\ mockDatabase' = mockDatabase \cup {fileHashOf(r.doc)}
             /\ req' = [req EXCEPT ![s] =
                          [r EXCEPT !.pc = "legacySubmit",
                                    !.ipfsCid = Cid(r.doc)]]
             /\ resp' = resp
  /\ UNCHANGED <<vulns, order, counter, now, created>>

\* part_003 580-599: the transaction is confirmed and the request is
\* answered 201, or it fails and the request is answered 500; the contract
\* confirms no second record for an id it holds
LegacyAddVulnerabilitySubmit(s, outcome) ==
  /\ req[s].pc = "legacySubmit"
  /\ LET r == [req[s] EXCEPT !.calls = Append(@, "ledger.addVulnerability")]
     IN IF outcome = "ok" /\ ~LedgerExists(vulns, r.baseId)
        THEN /\ vulns' = LegacyLedgerAdd(vulns, r.baseId, r.doc, r.ipfsCid)
             /\ order' = Append(order, r.baseId)
             /\ resp' = legacyCreateResponse(r, 201, "")
        ELSE /\ resp' = legacyCreateResponse(r, 500, "reverted")
             /\ UNCHANGED <<vulns, order>>
  /\ req' = [req EXCEPT ![s] = Idle]
  /\ UNCHANGED <<mockDatabase, counter, pins, now, created>>

\* part_003 927-957: the response of delete-if-unreferenced
deleteResponse(r, status, error) ==
  [NoResp EXCEPT !.op = "deleteIfUnreferenced", !.status = status,
                 !.error = error, !.ipfsCid = r.ipfsCid, !.calls = r.calls]

\* part_003 940-952: every record has been read; the hash is in use and the
\* request is answered 400, or the handler issues the unpin
deleteDecided(r) ==
  IF r.ipfsCid \in r.cidsInUse THEN Idle ELSE [r EXCEPT !.pc = "legacyUnpin"]

\* part_003 945-949: the answer to a request whose hash is referenced
deleteDecidedResponse(r, old) ==
  IF r.ipfsCid \in r.cidsInUse
  THEN deleteResponse(r, 400, "still referenced") ELSE old

\* part_003 927-931: a delete request arrives and the ids of the ledger
\* are enumerated
DeleteFileFromIPFSIfUnreferencedStart(s, cid, reachable) ==
  /\ req[s].pc = "idle"
  /\ \A t \in Slots : t < s => req[t].pc # "idle"
  /\ LET r == [Idle EXCEPT !.ipfsCid = cid,
                           !.calls = <<"ledger.getAllVulnerabilityIds">>,
                           !.ids = order]
     IN IF ~reachable
        THEN /\ resp' = deleteResponse(r, 500, "unreachable")
             /\ req' = req
        ELSE IF r.ids = <<>>
        THEN /\ req' = [req EXCEPT ![s] = deleteDecided(r)]
             /\ resp' = deleteDecidedResponse(r, resp)
        ELSE /\ req' = [req EXCEPT ![s] = [r EXCEPT !.pc = "legacyRead"]]
             /\ resp' = resp
  /\ UNCHANGED <<mockDatabase, vulns, order, counter, pins, now, created>>

\* part_003 933-939: the record of the next enumerated id is read
DeleteFileFromIPFSIfUnreferencedRead(s, reachable) ==
  /\ req[s].pc = "legacyRead"
  /\ LET r == [req[s] EXCEPT !.calls = Append(@, "ledger.getVulnerability")]
         u == [r EXCEPT !.ids = Tail(@),
                        !.cidsInUse =
                          @ \cup {LegacyLedgerCid(vulns, Head(r.ids))}]
     IN IF ~reachable
        THEN /\ resp' = deleteResponse(r, 500, "unreachable")
             /\ req' = [req EXCEPT ![s] = Idle]
        ELSE IF u.ids = <<>>
        THEN /\ req' = [req EXCEPT ![s] = deleteDecided(u)]
             /\ resp' = deleteDecidedResponse(u, resp)
        ELSE /\ req' = [req EXCEPT ![s] = u]
             /\ resp' = resp
  /\ UNCHANGED <<mockDatabase, vulns, order, counter, pins, now, created>>

\* part_003 941-946 and 1002-1018: the unpin returns and the request is
\* answered 200, or it fails and the request is answered 500
DeleteFileFromIPFSIfUnreferencedUnpin(s, ok) ==
  /\ req[s].pc = "legacyUnpin"
  /\ LET r == [req[s] EXCEPT !.calls = Append(@, "store.unpin")]
     IN /\ pins' = IF ok THEN unpinFromIPFS(pins, r.ipfsCid) ELSE pins
        /\ resp' = IF ok THEN deleteResponse(r, 200, "")
                   ELSE deleteResponse(r, 500, "unpin failed")
  /\ req' = [req EXCEPT ![s] = Idle]
  /\ UNCHANGED <<mockDatabase, vulns, order, counter, now, created>>

\* part_003 402: the process is restarted between two requests; the set
\* starts empty
Restart ==
  /\ \A s \in Slots : req[s].pc = "idle"
  /\ resp = NoResp
  /\ mockDatabase' = {}
  /\ UNCHANGED <<vulns, order, counter, pins, now, created, req, resp>>

\* ------------------------------------------------------------------ status
\* what provider.getBlockNumber() does: it resolves to a block number or it
\* is rejected with a message
BlockNumbers == {0, 1, 20}
ProviderMessages == {"Blockchain error", "timeout"}
ProviderAnswers ==
  {<<"ok", n>> : n \in BlockNumbers}
    \cup {<<"error", m>> : m \in ProviderMessages}

\* a status handler that answers 200 whatever the provider did
statusResponseAlways200(answer) ==
  [NoResp EXCEPT !.op = "status", !.provider = answer, !.status = 200,
                 !.result = "success",
                 !.blockNumber = IF answer[1] = "ok" THEN answer[2] ELSE -1,
                 !.calls = <<"provider.getBlockNumber">>]

\* part_003 443-452: the response of GET /status
statusResponse(answer) ==
  IF answer[1] = "ok"
  THEN [NoResp EXCEPT !.op = "status", !.provider = answer, !.status = 200,
                      !.result = "success", !.blockNumber = answer[2],
                      !.calls = <<"provider.getBlockNumber">>]
  ELSE [NoResp EXCEPT !.op = "status", !.provider = answer, !.status = 500,
                      !.result = "error", !.error = answer[2],
                      !.calls = <<"provider.getBlockNumber">>]

\* part_003 443-452: a status request is served
GetStatus(answer) ==
  /\ resp = NoResp
  /\ resp' = statusResponse(answer)
  /\ UNCHANGED <<mockDatabase, vulns, order, counter, pins, now, created, req>>

\* --------------------------------------------------------- date validation
\* String.prototype.padStart(width, '0')
RECURSIVE padStart(_, _)
padStart(str, width) ==
  IF Len(str) >= width THEN str ELSE padStart(<<"0">> \o str, width)

\* the years, months and days the date strings of the requests are built of
YearInputs == {0, 1989, 1990, 2023, 9999}
MonthInputs == 0..13
DayInputs == {0, 1, 28, 29, 30, 31, 32}

MkDate(y, m, d) ==
  padStart(toDigits(y), 4) \o Dash \o padStart(toDigits(m), 2)
  \o Dash \o padStart(toDigits(d), 2)

\* strings of neither shape: empty, too short, too long, a one-digit month,
\* slashes, a letter among the digits
MalformedDates ==
  { <<>>,
    <<"2", "0", "2">>,
    <<"2", "0", "2", "3", "3">>,
    <<"2", "0", "a", "3">>,
    <<"a", "b", "c", "d">>,
    <<"2", "0", "2", "3", "-", "4", "-", "3", "0">>,
    <<"2", "0", "2", "3", "/", "0", "4", "/", "3", "0">>,
    <<"2", "0", "2", "3", "-", "0", "4", "-", "3", "a">>,
    <<"2", "0", "2", "3", "0", "4", "-", "3", "-", "0">>,
    <<"2", "0", "2", "3", "-", "0", "4", "-", "3", "0", "0">> }

DateInputs ==
  {padStart(toDigits(y), 4) : y \in YearInputs}
  \cup {MkDate(y, m, d) : y \in YearInputs, m \in MonthInputs, d \in DayInputs}
  \cup MalformedDates

\* validate.js 10-29: the response of the date validation route
validateDiscoveryDateResponse(date) ==
  LET r == [NoResp EXCEPT !.op = "validateDiscoveryDate", !.id = date]
      res == validateDiscoveryDate(date)
  IN IF date = <<>>
     THEN [r EXCEPT !.status = 400, !.error = "Date parameter is required"]
     ELSE IF res[1]
       THEN [r EXCEPT !.status = 200, !.valid = TRUE,
                      !.year = extractYearFromDate(date)]
     ELSE [r EXCEPT !.status = 400, !.error = res[2]]

\* validate.js 10-29: a date validation request is served
ValidateDiscoveryDate(date) ==
  /\ resp = NoResp
  /\ resp' = validateDiscoveryDateResponse(date)
  /\ UNCHANGED <<mockDatabase, vulns, order, counter, pins, now, created, req>>

\* blockchain.js 397-420: extractYearFromDate is called
ExtractYearFromDate(date) ==
  /\ resp = NoResp
  /\ resp' = [NoResp EXCEPT !.op = "extractYearFromDate", !.id = date,
                            !.year = extractYearFromDate(date)]
  /\ UNCHANGED <<mockDatabase, vulns, order, counter, pins, now, created, req>>

\* ------------------------------------------------------- identifier codec
\* the platform, year and sequence fields the BvcId strings are built of
PlatformInputs == {<<"E", "T">>, ETH, <<"M", "U", "L", "T", "I">>}
YearFields == {Date2023, <<"0", "9", "9", "9">>}
SeqFields ==
  { <<"0", "0", "1">>, <<"0", "1", "0">>, <<"1", "2", "3">>,
    <<"0", "0", "0", "1">>, <<"1", "2", "3", "4">>,
    <<"0", "0", "0", "0", "1">>, <<"1", "2", "3", "4", "5">> }

\* strings of the BvcId grammar, and strings that are not: a one-letter
\* platform, a two-digit sequence, a lower-case platform, a text identifier
BvcInputs ==
  {BVC \o p \o Dash \o y \o Dash \o q :
     p \in PlatformInputs, y \in YearFields, q \in SeqFields}
  \cup { BVC \o <<"E">> \o Dash \o Date2023 \o Dash \o <<"0", "0", "1">>,
         BVC \o ETH \o Dash \o Date2023 \o Dash \o <<"0", "1">>,
         BVC \o LowerEth \o Dash \o Date2023 \o Dash \o <<"0", "0", "1">>,
         TextIdA }

\* part_008 19-35: the three extractors are applied to one string
ParseBvcId(bvcId) ==
  /\ resp = NoResp
  /\ resp' = [NoResp EXCEPT !.op = "parseBvcId", !.id = bvcId,
                            !.valid = bvcIdRegex(bvcId),
                            !.platform = extractPlatformFromBvcId(bvcId),
                            !.year = extractYearFromBvcId(bvcId),
                            !.seq = extractEntryIdFromBvcId(bvcId)]
  /\ UNCHANGED <<mockDatabase, vulns, order, counter, pins, now, created, req>>

\* the identifiers a client supplies: the BaseIds and BvcIds of the registry,
\* the first two BvcIds of ETH-2023, a BvcId used as text identifier, and a
\* text identifier that does not start with "BVC-"
IdInputs ==
  DOMAIN vulns
    \cup {MkBvcId(ETH, Date2023, 1), MkBvcId(ETH, Date2023, 2),
          TextIdBvc, TextIdA}

\* the positions whose detail fetch fails: none, or one
FailingInputs == {{}} \cup {{i} : i \in 1..MaxCreates}

Status ==
  \E id \in IdInputs \cup {<<>>}, isActive \in BOOLEAN, reachable \in BOOLEAN :
    SetVulnerabilityStatus(id, isActive, reachable)

Fetch ==
  \E id \in IdInputs, reachable \in BOOLEAN, storeUp \in BOOLEAN,
     decodedName \in DecodedNames :
    GetVulnerability(id, reachable, storeUp, decodedName)

Versions ==
  \E id \in IdInputs, reachable \in BOOLEAN, failing \in FailingInputs :
    GetVulnerabilityVersions(id, reachable, failing)

Core == Tick \/ Deliver \/ Create \/ Status

\* the values of the page and pageSize query parameters
PageInputs == -1..MaxPage
PageSizeInputs == -1..MaxPageSize

Pages ==
  \/ \E s \in Slots, qPage \in PageInputs, qPageSize \in PageSizeInputs,
        reachable \in BOOLEAN :
        GetPaginatedVulnerabilityIds(s, qPage, qPageSize, reachable)
  \/ \E s \in Slots, reachable \in BOOLEAN :
        GetPaginatedVulnerabilityIdsTotal(s, reachable)
  \/ \E reachable \in BOOLEAN : GetAllVulnerabilityIds(reachable)

Lists ==
  \/ \E reachable \in BOOLEAN, failing \in FailingInputs, storeUp \in BOOLEAN :
        GetAllVulnerabilities(reachable, failing, storeUp)
  \/ \E qPage \in PageInputs, qPageSize \in PageSizeInputs,
        reachable \in BOOLEAN, failing \in FailingInputs, storeUp \in BOOLEAN :
        GetPaginatedAllVulnerabilities(qPage, qPageSize, reachable, failing,
                                       storeUp)
  \/ \E platform \in {ETH, SOL, LowerEth}, reachable \in BOOLEAN,
        failing \in FailingInputs, storeUp \in BOOLEAN :
        GetAllVulnerabilitiesByPlatform(platform, reachable, failing, storeUp)

\* creates, status toggles, fetch-one and version history
Next == Core \/ Fetch \/ Versions

Spec == Init /\ [][Next]_vars

\* creates, status toggles and the two operations that list identifiers
NextPages == Core \/ Pages

SpecPages == Init /\ [][NextPages]_vars

\* creates, status toggles and the three operations that list records
\* health, date validation and the identifier codec
Util ==
  \/ \E down \in SUBSET Collaborators : Health(down)
  \/ \E answer \in ProviderAnswers : GetStatus(answer)
  \/ \E date \in DateInputs : ValidateDiscoveryDate(date)
  \/ \E date \in DateInputs : ExtractYearFromDate(date)
  \/ \E bvcId \in BvcInputs : ParseBvcId(bvcId)

NextUtil == Deliver \/ Util

SpecUtil == Init /\ [][NextUtil]_vars

NextLists == Core \/ Lists

SpecLists == Init /\ [][NextLists]_vars

\* the server with a hash set: creates, delete-if-unreferenced, restarts
Legacy ==
  \/ \E s \in Slots, id \in LegacyIds, file \in LegacyFiles \cup {NoDoc} :
        LegacyAddVulnerabilityStart(s, id, file)
  \/ \E s \in Slots, ok \in BOOLEAN : LegacyAddVulnerabilityUpload(s, ok)
  \/ \E s \in Slots, outcome \in {"ok", "reverted"} :
        LegacyAddVulnerabilitySubmit(s, outcome)
  \/ \E s \in Slots, file \in LegacyFiles, reachable \in BOOLEAN :
        DeleteFileFromIPFSIfUnreferencedStart(s, Cid(file), reachable)
  \/ \E s \in Slots, reachable \in BOOLEAN :
        DeleteFileFromIPFSIfUnreferencedRead(s, reachable)
  \/ \E s \in Slots, ok \in BOOLEAN :
        DeleteFileFromIPFSIfUnreferencedUnpin(s, ok)
  \/ Restart

NextLegacy == Deliver \/ Legacy

SpecLegacy == Init /\ [][NextLegacy]_vars

\* ------------------------------------------------------------------ claims
\* the number of creates the ledger confirmed for the BaseId
ConfirmedCreates(baseId) == Len(vulns[baseId].versions)

\* C1: after N >= 1 confirmed creates against one BaseId, a version-history
\* response for it (every detail fetch returning) has exactly N entries and
\* the i-th entry carries version i
C1_VersionHistoryIsOneToN ==
  (resp.op = "getVulnerabilityVersions" /\ resp.status = 200
     /\ resp.failed = {})
  => /\ Len(resp.entries) = ConfirmedCreates(resp.baseId)
     /\ \A i \in 1..Len(resp.entries) : resp.entries[i].version = i

\* C2: a confirmed create against a BaseId that already exists reports the
\* BvcId that was assigned to that BaseId by its first create
C2_ResubmissionReportsAssignedBvcId ==
  (resp.op = "create" /\ resp.status = 201 /\ ~resp.first)
  => resp.bvcId = vulns[resp.baseId].bvcId

\* the Discovery-Date Validator and the two other input checks of create
InvalidInput(doc) ==
  \/ missingFields(doc) # {}
  \/ ~platformRegex(doc.platform)
  \/ ~validateDiscoveryDate(doc.discoveryDate)[1]

\* C5: a create whose document fails input validation is answered before
\* any call to the ledger gateway or to the content store gateway
C5_ValidationBeforeAnyCall ==
  (resp.op = "create" /\ InvalidInput(resp.doc)) => resp.calls = <<>>

\* what fetch-one reports for an identifier when both collaborators answer
\* and a revert of the ledger carries no revert data
FetchView(v, store, id) ==
  LET f == getVulnerabilityResponse(v, store, id, TRUE, TRUE, "")
  IN IF f.status = 200
     THEN [status |-> 200, bvc_id |-> f.entries[1].bvc_id,
           version |-> f.entries[1].version,
           platform |-> f.entries[1].platform,
           ipfsCid |-> f.entries[1].ipfsCid,
           isActive |-> f.entries[1].isActive]
     ELSE [status |-> f.status, bvc_id |-> <<>>, version |-> 0,
           platform |-> <<>>, ipfsCid |-> NoCid, isActive |-> FALSE]

\* the response of version history when the ledger answers every call
HistoryView(v, store, id) ==
  getVulnerabilityVersionsResponse(v, store, id, TRUE, {})

\* C7: once the second create against a BaseId is answered 201, fetch-one of
\* the BvcId in that answer reports version 2 under the BvcId assigned by the
\* first create, and version history of that BvcId has exactly two entries
C7_SecondCreateIsVersionTwo ==
  (resp.op = "create" /\ resp.status = 201 /\ ~resp.first
     /\ ConfirmedCreates(resp.baseId) = 2)
  => /\ FetchView(vulns, pins, resp.bvcId).status = 200
     /\ FetchView(vulns, pins, resp.bvcId).version = 2
     /\ FetchView(vulns, pins, resp.bvcId).bvc_id = vulns[resp.baseId].bvcId
     /\ HistoryView(vulns, pins, resp.bvcId).status = 200
     /\ Len(HistoryView(vulns, pins, resp.bvcId).entries) = 2

\* a step in which a create request is answered
CreateAnswered == resp' # resp /\ resp'.op = "create"

\* BVC-<platform>-<year of the date>-<3 to 5 digits>
HasBvcIdForm(bvcId, doc) ==
  /\ bvcIdRegex(bvcId)
  /\ startsWith(bvcId, BVC \o doc.platform \o Dash
                       \o substring0(doc.discoveryDate, 4) \o Dash)

\* the vulnerability the answered create registered is as that create left
\* it: no other request has amended or deactivated it in the meantime
Untouched(v, baseId) == Len(v[baseId].versions) = 1 /\ v[baseId].isActive

\* C8: a 201 answer to a first submission carries a BvcId of the form
\* BVC-<platform>-<year>-<digits>, and fetch-one of that BvcId then returns
\* 200 with version 1, the submitted platform and status active
C8_CreateThenFetch ==
  [][(CreateAnswered /\ resp'.status = 201 /\ resp'.first
        /\ Untouched(vulns', resp'.baseId))
     => /\ resp'.bvcId # <<>>
        /\ HasBvcIdForm(resp'.bvcId, resp'.doc)
        /\ FetchView(vulns', pins', resp'.bvcId).status = 200
        /\ FetchView(vulns', pins', resp'.bvcId).version = 1
        /\ FetchView(vulns', pins', resp'.bvcId).platform = resp'.doc.platform
        /\ FetchView(vulns', pins', resp'.bvcId).isActive]_vars

\* the BaseIds whose BvcId is the identifier
BaseIdsOfBvcId(id) == {b \in DOMAIN vulns : vulns[b].bvcId = id}

\* C9: a status toggle addressed by the BvcId of a vulnerability (the ledger
\* being reachable) is applied to the BaseId under which it was created:
\* the toggle succeeds and fetch-one of the BvcId reports the new status
C9_ToggleByBvcIdReachesItsBaseId ==
  (resp.op = "setStatus" /\ resp.error # "network error"
     /\ BaseIdsOfBvcId(resp.id) # {})
  => /\ resp.baseId \in BaseIdsOfBvcId(resp.id)
     /\ resp.status = 200
     /\ FetchView(vulns, pins, resp.id).isActive = resp.isActive

\* C10: status toggle and version history pass the identifier to the ledger
\* unchanged iff it has the 0x-and-64-hex-digits shape, and pass the hash of
\* every other identifier
C10_RawIffHexShape ==
  (resp.op \in {"setStatus", "getVulnerabilityVersions"} /\ resp.calls # <<>>)
  => resp.baseId = IF isLikelyBaseId(resp.id) THEN resp.id
                   ELSE generateBaseId(resp.id)

\* the operations that enumerate identifiers and fetch each record
ListOps ==
  {"getAllVulnerabilities", "getPaginatedAllVulnerabilities",
   "getAllVulnerabilitiesByPlatform"}

\* C6: when the ledger enumerated at least one identifier, the response of
\* fetch-all, fetch-paginated and fetch-by-platform is a success with one
\* entry per enumerated identifier, in enumeration order
C6_OneEntryPerEnumeratedId ==
  (resp.op \in ListOps /\ Len(resp.enumerated) > 0)
  => /\ resp.status = 200
     /\ Len(resp.entries) = Len(resp.enumerated)
     /\ \A i \in 1..Len(resp.enumerated) :
          resp.entries[i].bvc_id = resp.enumerated[i]

\* the identifiers of page p, page size k, as paginated-ids answers them
PageIds(v, ord, p, k) ==
  getPaginatedVulnerabilityIdsResponse(v, ord, p, k, TRUE).ids

\* pages p, p + 1, ... up to the last non-empty page, concatenated
RECURSIVE ConcatPages(_, _, _, _)
ConcatPages(v, ord, p, k) ==
  IF p > Len(ord) + 1 \/ PageIds(v, ord, p, k) = <<>> THEN <<>>
  ELSE PageIds(v, ord, p, k) \o ConcatPages(v, ord, p + 1, k)

NoDuplicates(seq) ==
  \A i, j \in 1..Len(seq) : seq[i] = seq[j] => i = j

\* C3: for every page size k >= 1, the pages 1, 2, ... of paginated-ids up
\* to the last non-empty one concatenate to the answer of all-ids
C3_PagesConcatenateToAllIds ==
  \A k \in 1..MaxPageSize :
    /\ ConcatPages(vulns, order, 1, k)
         = getAllVulnerabilityIdsResponse(vulns, order, TRUE).ids
    /\ NoDuplicates(ConcatPages(vulns, order, 1, k))

\* a second page of size 1 has been served and was not empty
C3_Witness ==
  /\ resp.op = "getPaginatedVulnerabilityIds"
  /\ resp.status = 200
  /\ resp.page = 2
  /\ resp.pageSize = 1
  /\ resp.ids # <<>>
  /\ resp.ids = SubSeq(LedgerAllBvcIds(vulns, order), 2, 2)

\* a step that serves a status toggle
ToggleServed == resp = NoResp /\ resp'.op = "setStatus"

\* C4: a status toggle leaves unchanged what fetch-one reports as version
\* and content hash for every identifier, creates no version and performs no
\* content store write
C4_ToggleKeepsVersionAndContent ==
  [][ToggleServed
     => /\ \A id \in IdInputs :
             /\ FetchView(vulns', pins', id).version
                  = FetchView(vulns, pins, id).version
             /\ FetchView(vulns', pins', id).ipfsCid
                  = FetchView(vulns, pins, id).ipfsCid
        /\ \A b \in DOMAIN vulns : vulns'[b].versions = vulns[b].versions
        /\ pins' = pins
        /\ \A i \in 1..Len(resp'.calls) : resp'.calls[i] # "store.put"]_vars

\* a vulnerability with two versions has been deactivated by a status toggle
C4_Witness ==
  /\ resp.op = "setStatus"
  /\ resp.status = 200
  /\ ~resp.isActive
  /\ LedgerExists(vulns, resp.baseId)
  /\ ~vulns[resp.baseId].isActive
  /\ Len(vulns[resp.baseId].versions) = 2

C13_FetchAbsentIs404 ==
  (resp.op = "getVulnerability" /\ LedgerResolve(vulns, resp.id) = <<>>
     /\ resp.error # "network error")
  => resp.status = 404 /\ includesDoesNotExist(resp.error)

\* C14: when the ledger returns the record and the content store read
\* fails, fetch-one still answers 200 with the ledger metadata and a null
\* body
C14_StoreOutageStill200 ==
  \A id \in IdInputs :
    LET rec == LedgerFetchLatest(vulns, id)
        r == getVulnerabilityResponse(vulns, pins, id, TRUE, FALSE, "")
    IN rec.ok
       => /\ r.status = 200
          /\ Len(r.entries) = 1
          /\ r.entries[1].bvc_id = rec.bvc_id
          /\ r.entries[1].baseId = rec.baseId
          /\ r.entries[1].version = rec.version
          /\ r.entries[1].platform = rec.platform
          /\ r.entries[1].discoveryDate = rec.discoveryDate
          /\ r.entries[1].ipfsCid = rec.ipfsCid
          /\ r.entries[1].isActive = rec.isActive
          /\ r.entries[1].body = NoDoc

\* fetch-one has answered 200 with a null body for a record whose content
\* is pinned: the content store read failed
C14_Witness ==
  /\ resp.op = "getVulnerability"
  /\ resp.status = 200
  /\ resp.entries[1].body = NoDoc
  /\ StoreHas(pins, resp.entries[1].ipfsCid)
  /\ resp.entries[1].bvc_id # <<>>

\* C12: health answers 200 only when every collaborator is reachable and
\* 503 when one or more of them is down; it never answers 200 while the
\* ledger (node or contract) is unreachable
C12_HealthyOnlyWhenAllReachable ==
  resp.op = "health"
  => /\ (resp.status = 200 => resp.down = {})
     /\ (resp.down # {} => resp.status = 503)
     /\ (resp.down \cap {"rpc", "contract"} # {} => resp.status # 200)

\* the dates the specification accepts, built from their parts
MonthCap(m) == IF m = 2 THEN 29 ELSE IF m \in {4, 6, 9, 11} THEN 30 ELSE 31

AcceptedDates ==
  {padStart(toDigits(y), 4) : y \in YearInputs \cap (1990..9999)}
  \cup UNION {{MkDate(y, m, d) : d \in 1..MonthCap(m)} :
               y \in YearInputs \cap (1990..9999), m \in 1..12}

\* C17: validate accepts a string iff it is YYYY with 1990 <= year <= 9999
\* or YYYY-MM-DD with that year range, month 1..12 and a day within the cap
\* of the month; "1989", "2023-02-30", "2023-04-31", "2023-13-01" and ""
\* fail, "1990" and "2023-04-30" succeed
C17_ValidateAcceptsExactlyTheTwoShapes ==
  /\ resp.op = "validateDiscoveryDate"
     => /\ resp.valid <=> resp.id \in AcceptedDates
        /\ resp.status = IF resp.id \in AcceptedDates THEN 200 ELSE 400
  /\ ~validateDiscoveryDate(Date1989)[1]
  /\ ~validateDiscoveryDate(Date20230230)[1]
  /\ ~validateDiscoveryDate(MkDate(2023, 4, 31))[1]
  /\ ~validateDiscoveryDate(MkDate(2023, 13, 1))[1]
  /\ ~validateDiscoveryDate(<<>>)[1]
  /\ validateDiscoveryDate(toDigits(1990))[1]
  /\ validateDiscoveryDate(MkDate(2023, 4, 30))[1]

\* the validation of 2023-02-29 has been answered: accepted
C17_Witness ==
  /\ resp.op = "validateDiscoveryDate"
  /\ resp.id = MkDate(2023, 2, 29)
  /\ resp.valid
  /\ resp.status = 200

\* BVC-<platform>-<year>-<sequence> built from the parsed parts: a 4-digit
\* year and a sequence number zero-padded to three digits
RebuildBvcId(platform, year, seq) ==
  BVC \o platform \o Dash \o padStart(toDigits(year), 4) \o Dash
  \o padStart(toDigits(seq), 3)

\* C18: for every string of the BvcId grammar, rebuilding the BvcId from
\* the platform, year and sequence the extractors return reproduces it
C18_ParseRebuildRoundTrip ==
  (resp.op = "parseBvcId" /\ resp.valid)
  => RebuildBvcId(resp.platform, resp.year, resp.seq) = resp.id

\* the year of a string of one of the two shapes, 0 for any other string
ShapeYear(s) ==
  IF \E y \in YearInputs : s = padStart(toDigits(y), 4)
    THEN CHOOSE y \in YearInputs : s = padStart(toDigits(y), 4)
  ELSE IF \E y \in YearInputs, m \in MonthInputs, d \in DayInputs :
            s = MkDate(y, m, d)
    THEN CHOOSE y \in YearInputs :
           \E m \in MonthInputs, d \in DayInputs : s = MkDate(y, m, d)
  ELSE 0

\* C20: extractYear returns 0 for the empty string and for every string
\* that is neither YYYY nor YYYY-MM-DD, and the 4-digit year otherwise
C20_ExtractYearIsTotal ==
  /\ resp.op = "extractYearFromDate" => resp.year = ShapeYear(resp.id)
  /\ extractYearFromDate(<<>>) = 0
  /\ \A s \in MalformedDates : extractYearFromDate(s) = 0

\* the year of a ten-character string with slashes was extracted as 0
C20_Witness ==
  /\ resp.op = "extractYearFromDate"
  /\ Len(resp.id) = 10
  /\ resp.id \in MalformedDates
  /\ resp.year = 0

\* C15: a create whose discoveryDate fails the date validation is answered
\* 400, never 500 and never 201 (no collaborator having failed)
C15_InvalidDateIs400 ==
  (resp.op = "create" /\ ~validateDiscoveryDate(resp.doc.discoveryDate)[1]
     /\ resp.error # "store")
  => resp.status = 400

\* C16: a status toggle addressed to a BaseId the ledger does not hold is
\* answered 404, not 500 and not 200
C16_ToggleAbsentIs404 ==
  (resp.op = "setStatus" /\ resp.calls # <<>>
     /\ EncodesAsBytes32(resp.baseId) /\ ~LedgerExists(vulns, resp.baseId)
     /\ resp.error # "network error")
  => resp.status = 404

\* the (text identifier, BaseId) pairs of the derivations the requests in
\* flight and the request answered last have made
Derivations ==
  {<<req[s].doc.id, req[s].baseId>> :
     s \in {t \in Slots : req[t].doc.id # <<>> /\ req[t].baseId # <<>>}}
  \cup (IF resp.op = "create" /\ resp.doc.id # <<>> /\ resp.baseId # <<>>
        THEN {<<resp.doc.id, resp.baseId>>} ELSE {})
  \cup (IF resp.op \in {"setStatus", "getVulnerabilityVersions"}
           /\ startsWith(resp.id, BVC) /\ resp.baseId # <<>>
        THEN {<<resp.id, resp.baseId>>} ELSE {})

UploadedAs(r, name) == \E i \in 1..Len(r.uploads) : r.uploads[i] = name

\* C23: a 201 answer to a first submission whose ledger-assigned BvcId
\* differs from the name of the provisional upload reports the
\* ledger-assigned BvcId, and the content was uploaded again under it
C23_ReuploadUnderAssignedBvcId ==
  (/\ resp.op = "create" /\ resp.status = 201 /\ resp.first
   /\ resp.authBvcId # replaceJson(resp.uploads[1]))
    => /\ resp.bvcId = resp.authBvcId
       /\ UploadedAs(resp, resp.authBvcId \o JsonExt)

\* a create is answered after its submit step failed
SubmitFailed(s) ==
  /\ req[s].pc = "submit" /\ req'[s].pc = "idle"
  /\ resp'.op = "create" /\ resp'.status # 201

\* the calls of a response that go to the content store
StoreCalls(r) ==
  {i \in 1..Len(r.calls) : r.calls[i] \in {"store.put", "store.unpin"}}

\* C24: when the submit of a create fails after its upload succeeded, the
\* step makes no call to the content store, the uploaded content stays
\* pinned, the ledger gains no record, and the answer is an error
C24_NoCompensationAfterFailedSubmit ==
  [][\A s \in Slots : SubmitFailed(s) =>
       /\ pins' = pins /\ req[s].ipfsCid \in pins'
       /\ vulns' = vulns /\ order' = order
       /\ resp'.status >= 400
       /\ Cardinality(StoreCalls(resp')) = 1
       /\ resp'.calls[Len(resp'.calls)] = "ledger.submitVulnerability"]_vars

\* a create was answered with an error after its upload, and no record of
\* the ledger references the content that stays pinned
C24_Witness ==
  /\ resp.op = "create" /\ resp.status >= 400
  /\ resp.calls # <<>>
  /\ resp.calls[Len(resp.calls)] = "ledger.submitVulnerability"
  /\ Cid(resp.doc) \in pins
  /\ \A b \in DOMAIN vulns : \A n \in 1..Len(vulns[b].versions) :
        vulns[b].versions[n].ipfsCid # Cid(resp.doc)

\* C26: a 201 answer to a create of a document without text identifier
\* reports a BaseId no earlier create obtained: the chain of the BaseId
\* holds exactly version 1
C26_DerivedBaseIdIsFresh ==
  (resp.op = "create" /\ resp.status = 201 /\ resp.doc.id = <<>>)
    => /\ resp.first
       /\ LedgerExists(vulns, resp.baseId)
       /\ Len(vulns[resp.baseId].versions) = 1

\* C21: the health response reports the content store as available exactly
\* when the content store is reachable, whatever the ledger checks found
C21_StoreFlagIndependentOfLedger ==
  resp.op = "health"
    => (("ipfs_available" \in resp.checks) <=> ("ipfs" \notin resp.down))

ReferencedCids ==
  UNION {{vulns[b].versions[n].ipfsCid : n \in 1..Len(vulns[b].versions)} :
           b \in DOMAIN vulns}

\* C25: restarting the process between two requests changes no answer: for
\* every create request, what the handler answers before its first await
\* is the same after the restart as before it
C25_RestartChangesNoAnswer ==
  [][Restart =>
       \A id \in LegacyIds, file \in LegacyFiles :
         legacyStartStatus(mockDatabase', id, file)
           = legacyStartStatus(mockDatabase, id, file)]_vars

\* C27: whatever creates run concurrently with delete-if-unreferenced,
\* every hash that a record of the ledger references is pinned
C27_ReferencedCidStaysPinned == \A cid \in ReferencedCids : cid \in pins

\* a create of the server with a hash set is past its duplicate check
PastDuplicateCheck(s) == req[s].pc \in {"legacyUpload", "legacySubmit"}

\* C28: of two concurrent creates with the same file, at most one passes
\* the duplicate check and goes on to upload and submit
C28_AtMostOnePassesDuplicateCheck ==
  \A s, t \in Slots :
    (s # t /\ PastDuplicateCheck(s) /\ PastDuplicateCheck(t))
      => req[s].doc # req[t].doc

\* C29: a create is answered 409 only when a record of the ledger holds the
\* content of its file or a create with that file is still in progress; a
\* create whose ledger write failed leaves nothing behind
C29_DuplicateOnlyAfterConfirmedCreate ==
  [][(resp' # resp /\ resp'.op = "legacyCreate" /\ resp'.status = 409)
       => \/ Cid(resp'.doc) \in ReferencedCids
          \/ \E s \in Slots : PastDuplicateCheck(s)
                                /\ req[s].doc = resp'.doc]_vars

Max(a, b) == IF a > b THEN a ELSE b

\* C30: in a paginated-ids response the identifiers and the pagination
\* metadata describe one state of the ledger: page p holds
\* min(pageSize, max(0, total - (p - 1) * pageSize)) identifiers, totalPages
\* is ceil(total / pageSize), and hasNextPage says that page p + 1 is not
\* empty
C30_PageAgreesWithMetadata ==
  (resp.op = "getPaginatedVulnerabilityIds" /\ resp.status = 200)
    => /\ Len(resp.ids)
            = Min(resp.pageSize,
                  Max(0, resp.total - (resp.page - 1) * resp.pageSize))
       /\ resp.totalPages = ceilDiv(resp.total, resp.pageSize)
       /\ resp.hasNextPage <=> (resp.total > resp.page * resp.pageSize)

====
